---- MODULE Spec2Model ----
(***************************************************************************)
(* Model of dashboardLSTMPro.py: the Streamlit session (login, update      *)
(* clock, cached CSV load, widget events and script re-runs) and the       *)
(* forecasting-and-alerting pipeline executed by main_dashboard.           *)
(*                                                                         *)
(* Time is counted in ticks, Res ticks to the second, so that instants     *)
(* with a fractional number of seconds (datetime.now carries microseconds) *)
(* are part of the model.  An optional session_state key is a sequence:    *)
(* <<>> when the key is absent, <<v>> when it holds v.                     *)
(***************************************************************************)
EXTENDS Integers, Sequences, FiniteSets, TLC

VARIABLES
    now,                  \* wall clock, in ticks (get_current_localized_time)
    authenticated,        \* st.session_state['authenticated']
    username,             \* st.session_state['username'] (optional)
    last_update_time,     \* st.session_state.last_update_time (optional, ticks)
    update_interval,      \* st.session_state.update_interval (optional, seconds)
    auto_update_enabled,  \* st.session_state.auto_update_enabled (optional)
    csv_cached,           \* load_csv_automatically's st.cache_data entry exists
                          \* (its ttl of 10800 s lies beyond MaxNow; under
                          \* the unbounded clock the entry may expire)
    pending,              \* a widget value delivered but not yet read by a run
    rerun,                \* st.rerun() was called: the script runs again at once
    page_num,             \* st.session_state.page_num (optional)
    countdown,            \* what the sidebar shows for "Next update in"
    lastOp,               \* what the last step of the program did
    refreshed_at,         \* history: the times of the last two refreshes made
                          \* by check_and_update with no interval change,
                          \* manual refresh or logout since the first of them
    login_form,           \* history: the form values of the login that set
                          \* the authenticated flag; <<>> when it is not set
    \* one run of the pipeline of main_dashboard (lines 652-1198)
    pc,                   \* where the run stands
    df_pressure,          \* the pressure column of the CSV: a cell is <<v>>,
                          \* or <<>> when it does not parse as a number
    cadence,              \* hours between the timestamps of two rows
    threshold,            \* "Critical Threshold" slider, in units of 0.01
    sequence_length,      \* "Prediction Sequence Length" slider
    model,                \* the loaded predictor
    data,                 \* what lines 708-798 compute from the CSV
    current_sequence,     \* predict_future's sliding buffer
    predicted_values,     \* predict_future's scaled predictions so far
    outcome,              \* forecast, verdict and what the page shows
    error,                \* the exception that ended the run, or "none"
    notices               \* st.warning messages of the run

sessionVars == <<now, authenticated, username, last_update_time, update_interval,
                 auto_update_enabled, csv_cached, pending, rerun, page_num,
                 countdown, lastOp, refreshed_at, login_form>>

pipeVars == <<pc, df_pressure, cadence, threshold, sequence_length, model, data,
              current_sequence, predicted_values, outcome, error, notices>>

vars == <<sessionVars, pipeVars>>

----------------------------------------------------------------------------
(* Bounds of the model *)

\* ticks per second
Res == 2
\* the clock stops advancing after this many seconds
MaxNow == 240
\* seconds that pass in one step of the unbounded clock
LiveStep == 5400
\* pages of the detailed table (total_pages)
TotalPages == 2

(* Program constants *)

DEFAULT_UPDATE_INTERVAL == 10800

update_options ==
    [l \in {"1 minute", "5 minutes", "15 minutes", "30 minutes", "1 hour",
            "3 hours", "6 hours", "12 hours", "24 hours"} |->
        CASE l = "1 minute" -> 60
          [] l = "5 minutes" -> 300
          [] l = "15 minutes" -> 900
          [] l = "30 minutes" -> 1800
          [] l = "1 hour" -> 3600
          [] l = "3 hours" -> 10800
          [] l = "6 hours" -> 21600
          [] l = "12 hours" -> 43200
          [] l = "24 hours" -> 86400]

\* list(update_options.keys()), in the dict's order
update_option_labels ==
    <<"1 minute", "5 minutes", "15 minutes", "30 minutes", "1 hour",
      "3 hours", "6 hours", "12 hours", "24 hours">>

\* hash_password: SHA-256 taken as collision free on the passwords tried
hash_password(password) == <<"sha256", password>>

USER_CREDENTIALS ==
    [u \in {"engineer", "supervisor", "admin"} |->
        CASE u = "engineer" -> hash_password("engineer123")
          [] u = "supervisor" -> hash_password("supervisor123")
          [] u = "admin" -> hash_password("admin123")]

(* Inputs the environment may supply, drawn from small sets *)

\* how far the clock may jump between two steps (ticks): just under a
\* minute, and a minute
TickSteps == {60 * Res - 1, 60 * Res}
\* labels the user picks in the "Update Interval" selectbox
SelectableLabels == {"1 minute", "5 minutes", "3 hours"}
\* what is typed into the login form
TypedUsernames == {"", "engineer", "guest"}
TypedPasswords == {"", "engineer123", "admin123"}

----------------------------------------------------------------------------
(* Widget events: the value a widget delivers to the run it triggers *)

NoEv == [k |-> "none", arg |-> ""]
Ev(k) == [k |-> k, arg |-> ""]
SelectEv(l) == [k |-> "select", arg |-> l]

\* widgets that hold a value (checkbox, selectbox) and buttons
ValueEvents == {Ev("toggle")} \cup {SelectEv(l) : l \in SelectableLabels}
ButtonEvents == {Ev("refresh"), Ev("logout"), Ev("prev"), Ev("next")}
Events == {NoEv} \cup ValueEvents \cup ButtonEvents

----------------------------------------------------------------------------
(* authentication *)

check_authentication == authenticated

MutAuthenticateKnownUser(u, p) == u \in DOMAIN USER_CREDENTIALS

authenticate_user(u, p) ==
    IF u \in DOMAIN USER_CREDENTIALS
        THEN USER_CREDENTIALS[u] = hash_password(p)
        ELSE FALSE

----------------------------------------------------------------------------
(* init_session_state: each absent key gets its default *)

MutInitLastOverwritten == now

InitLast == IF last_update_time = <<>> THEN now ELSE last_update_time[1]
InitInterval ==
    IF update_interval = <<>> THEN DEFAULT_UPDATE_INTERVAL ELSE update_interval[1]
InitEnabled ==
    IF auto_update_enabled = <<>> THEN TRUE ELSE auto_update_enabled[1]

----------------------------------------------------------------------------
(* check_and_update's condition; time_diff is in ticks, interval in seconds *)

MutShouldRefreshStrict(current_time, last, interval, enabled) ==
    (current_time - last) > interval * Res /\ enabled

ShouldRefresh(current_time, last, interval, enabled) ==
    (current_time - last) >= interval * Res /\ enabled

----------------------------------------------------------------------------
(* format_time_remaining *)

NoCountdown == [kind |-> "none", h |-> 0, m |-> 0, s |-> 0]
DisabledCountdown == [kind |-> "disabled", h |-> 0, m |-> 0, s |-> 0]

MutFormatPendingStrict(current_time, last, interval) ==
    LET time_remaining == interval * Res - (current_time - last)
    IN  IF time_remaining < 0
            THEN [kind |-> "pending", h |-> 0, m |-> 0, s |-> 0]
            ELSE [kind |-> "hms",
                  h |-> time_remaining \div (3600 * Res),
                  m |-> (time_remaining % (3600 * Res)) \div (60 * Res),
                  s |-> (time_remaining % (60 * Res)) \div Res]

format_time_remaining(current_time, last, interval) ==
    LET time_remaining == interval * Res - (current_time - last)
    IN  IF time_remaining <= 0
            THEN [kind |-> "pending", h |-> 0, m |-> 0, s |-> 0]
            ELSE [kind |-> "hms",
                  h |-> time_remaining \div (3600 * Res),
                  m |-> (time_remaining % (3600 * Res)) \div (60 * Res),
                  s |-> (time_remaining % (60 * Res)) \div Res]

----------------------------------------------------------------------------
(* show_user_panel: the widgets' values in a run that receives event ev *)

\* the checkbox starts from the session's flag; a toggle delivers the other value
CheckboxValue(ev) == IF ev.k = "toggle" THEN ~InitEnabled ELSE InitEnabled

\* default_index: the first option whose value is the current interval, else 0
DefaultLabel(interval) ==
    LET hits == {i \in DOMAIN update_option_labels :
                    update_options[update_option_labels[i]] = interval}
    IN  IF hits = {} THEN update_option_labels[1]
        ELSE update_option_labels[CHOOSE i \in hits : \A j \in hits : i <= j]

SelectedLabel(ev) == IF ev.k = "select" THEN ev.arg ELSE DefaultLabel(InitInterval)

IntervalChanged(ev) == update_options[SelectedLabel(ev)] # InitInterval

\* load_csv_automatically.clear() after an interval change: the cache entry
MutCacheKeptWhenDisabled(ev) == IF CheckboxValue(ev) THEN FALSE ELSE csv_cached

CacheAfterIntervalChange(ev) == FALSE

\* "Refresh Now": last_update_time after the press
MutRefreshedOnlyWhenEnabled(ev) == IF CheckboxValue(ev) THEN now ELSE InitLast

ManualRefreshLast(ev) == now

\* the event a run reads: the one that triggers it, or the one left pending
\* by the run that asked for this re-run
RunEvents == IF rerun THEN {pending} ELSE Events

\* the run gets past check_and_update
PanelReached == ~ShouldRefresh(now, InitLast, InitInterval, InitEnabled)

\* what the sidebar shows under "Auto-Update Status"
PanelCountdown(ev) ==
    IF CheckboxValue(ev)
        THEN format_time_remaining(now, InitLast, InitInterval)
        ELSE DisabledCountdown

----------------------------------------------------------------------------
(* The pipeline of main_dashboard.  Pressures and the threshold are counted *)
(* in units of 0.01, timestamps in hours.  The series lengths, the window    *)
(* length (slider 20..120) and the horizon (30*24 steps) are scaled down to  *)
(* the bounds below.                                                          *)

\* rows of the CSV: every length up to ShortRows, and MaxRows, the shortest
\* series whose held-out fifth gives two evaluation pairs
ShortRows == 7
MaxRows == 11
\* the last TailLen rows range over TailCells, the rows before over HeadCells
TailLen == 3
\* sequence_length ranges over 1..MaxSeqLen
MaxSeqLen == 2
\* steps of the forecast horizon
future_steps_1_month == 3

\* a cell that does not parse (to_numeric coerces it to NaN), a negative
\* reading, and readings of 0.04 and 0.06
TailCells == {<<>>, <<-1>>, <<4>>, <<6>>}
HeadCells == {<<4>>}
\* slider positions 0.05 and 0.06
Thresholds == {5, 6}
\* hourly and daily rows
Cadences == {1, 24}
\* the predictor is opaque: one that repeats the newest value of its window,
\* one that adds 0.01 to it, and one with two output units (both of these)
Models == {"last", "up", "wide"}

CsvColumns ==
    UNION {IF n <= TailLen
              THEN [1..n -> TailCells]
              ELSE {h \o t : h \in [1..(n - TailLen) -> HeadCells],
                             t \in [1..TailLen -> TailCells]}
           : n \in (0..ShortRows) \cup {MaxRows}}

\* Python slices d[k:], d[:n] and d[-n:] (n >= 1)
SliceFrom(d, k) == SubSeq(d, k + 1, Len(d))
SlicePrefix(d, n) == IF n >= Len(d) THEN d ELSE SubSeq(d, 1, n)

\* a numpy array: the elements of f, computed once
ndarray(f) == SubSeq(f, 1, Len(f))
SliceLast(d, n) == IF n >= Len(d) THEN d ELSE SubSeq(d, Len(d) - n + 1, Len(d))

\* lines 709-711: to_numeric(errors='coerce') and dropna
RECURSIVE dropna(_)
dropna(rows) ==
    IF rows = <<>> THEN <<>>
    ELSE IF Head(rows) = <<>> THEN dropna(Tail(rows))
    ELSE <<Head(rows)[1]>> \o dropna(Tail(rows))

\* lines 714-716: clip(lower=0)
MutClipSkipped(values) == values

clip_lower_zero(values) ==
    [i \in DOMAIN values |-> IF values[i] < 0 THEN 0 ELSE values[i]]

\* line 719: df['timestamp'].iloc[:n]; row i of the CSV is stamped (i-1)*cadence
timestamps_head(n, step) == [i \in 1..n |-> (i - 1) * step]

\* MinMaxScaler(feature_range=(0, 1)).fit: a zero range is replaced by 1
SeqMin(values) == CHOOSE v \in {values[i] : i \in DOMAIN values} :
                      \A i \in DOMAIN values : v <= values[i]
SeqMax(values) == CHOOSE v \in {values[i] : i \in DOMAIN values} :
                      \A i \in DOMAIN values : v >= values[i]
scaler_fit(values) ==
    [data_min |-> SeqMin(values),
     data_max |-> SeqMax(values),
     range |-> IF SeqMax(values) = SeqMin(values)
                  THEN 1 ELSE SeqMax(values) - SeqMin(values)]

\* A scaled value x is carried as the integer x * range, so that
\* transform is (v - data_min) / range and inverse x * range + data_min.
scaler_transform(sc, v) == v - sc.data_min

MutInverseConstantReturnsMin(sc, x) ==
    IF sc.data_max = sc.data_min THEN sc.data_min ELSE x + sc.data_min

scaler_inverse_transform(sc, x) == x + sc.data_min

\* line 727: int(len * 0.8)
TrainSize(n) == (n * 8) \div 10

\* lines 733-739
RECURSIVE create_sequences_loop(_, _, _, _, _)
create_sequences_loop(d, seq_length, i, sequences, targets) ==
    IF i >= Len(d) - seq_length
        THEN [X |-> sequences, y |-> targets]
        ELSE create_sequences_loop(d, seq_length, i + 1,
                 Append(sequences, SubSeq(d, i + 1, i + seq_length)),
                 Append(targets, d[i + seq_length + 1]))

MutCreateSequencesOffByOne(d, seq_length) ==
    create_sequences_loop(d, seq_length, 1, <<>>, <<>>)

create_sequences(d, seq_length) ==
    create_sequences_loop(d, seq_length, 0, <<>>, <<>>)

\* model.predict: the row of outputs for one window, in the scaled integers
\* above
model_outputs(m, window) ==
    CASE m = "last" -> <<window[Len(window)]>>
      [] m = "up" -> <<window[Len(window)] + 1>>
      [] m = "wide" -> <<window[Len(window)], window[Len(window)] + 1>>

\* lines 822-823: model.predict(input_seq)[0][0], the first output
model_predict(m, window) == model_outputs(m, window)[1]

\* ndarray.flatten of the rows predicted for a batch of windows
RECURSIVE flatten(_)
flatten(rows) ==
    IF rows = <<>> THEN <<>> ELSE Head(rows) \o flatten(Tail(rows))

\* lines 745-748 and 770-772: predictions_on_test_inv is assigned only when
\* there is a test window; <<>> stands for the unassigned name
MutTestPredictionsDefaultEmpty(m, sc, X_test) ==
    LET flat ==
            flatten(ndarray([i \in DOMAIN X_test |-> model_outputs(m, X_test[i])]))
    IN  <<ndarray([i \in DOMAIN flat |-> scaler_inverse_transform(sc, flat[i])])>>

TestPredictions(m, sc, X_test) ==
    IF Len(X_test) > 0
        THEN LET flat ==
                     flatten(ndarray([i \in DOMAIN X_test |->
                                         model_outputs(m, X_test[i])]))
             IN  <<ndarray([i \in DOMAIN flat |->
                               scaler_inverse_transform(sc, flat[i])])>>
        ELSE <<>>

\* line 752: the timestamps of the held-out targets
MutTestTimestampsFromSplit(timestamps_all, train_size, seq_length) ==
    SliceFrom(timestamps_all, train_size)

test_timestamps_of(timestamps_all, train_size, seq_length) ==
    SliceFrom(timestamps_all, train_size + seq_length)

\* lines 755-759: the three sequences cut to the shorter of actuals and
\* predictions
MutTruncateSkipped(actual, preds, ts) ==
    [actual_test_inv |-> actual, predictions_on_test_inv |-> preds,
     test_timestamps |-> ts]

truncate_test(actual, preds, ts) ==
    IF Len(actual) # Len(preds)
        THEN LET min_len_test ==
                     IF Len(actual) < Len(preds) THEN Len(actual) ELSE Len(preds)
             IN  [actual_test_inv |-> SlicePrefix(actual, min_len_test),
                  predictions_on_test_inv |-> SlicePrefix(preds, min_len_test),
                  test_timestamps |-> SlicePrefix(ts, min_len_test)]
        ELSE [actual_test_inv |-> actual, predictions_on_test_inv |-> preds,
              test_timestamps |-> ts]

\* lines 762-768 and 771: the sums the four metrics are made of (mse =
\* sq_err / n, mae = abs_err / n, r2 from sq_err and the actuals, accuracy =
\* 100 * hits / n with a tolerance of 0.01); sklearn refuses sequences of
\* different lengths
RECURSIVE SumOver(_, _)
SumOver(f, n) == IF n = 0 THEN 0 ELSE f[n] + SumOver(f, n - 1)

AbsDiff(a, b) == IF a >= b THEN a - b ELSE b - a

ZeroMetrics == [ok |-> TRUE, n |-> 0, sq_err |-> 0, abs_err |-> 0, hits |-> 0]

metrics_of(actual, preds) ==
    IF Len(actual) # Len(preds)
        THEN [ok |-> FALSE, n |-> 0, sq_err |-> 0, abs_err |-> 0, hits |-> 0]
        ELSE LET n == Len(actual)
                 d == [i \in 1..n |-> AbsDiff(actual[i], preds[i])]
             IN  [ok |-> TRUE,
                  n |-> n,
                  sq_err |-> SumOver([i \in 1..n |-> d[i] * d[i]], n),
                  abs_err |-> SumOver(d, n),
                  hits |-> SumOver([i \in 1..n |-> IF d[i] <= 1 THEN 1 ELSE 0], n)]

\* line 826: np.append(current_sequence[1:], next_pred_scaled[0])
MutSlideKeepsOldest(buffer, next_pred) == Append(buffer, next_pred)

slide_sequence(buffer, next_pred) == Append(SliceFrom(buffer, 1), next_pred)

\* line 822 raises inside predict_future: the exception leaves the function
\* and main_dashboard, and nothing is returned
MutPartialForecastReturned(partial, sc) ==
    [i \in DOMAIN partial |-> scaler_inverse_transform(sc, partial[i])]

forecast_on_error(partial, sc) == <<>>

\* lines 861-867: the first forecast point at or above the threshold
RECURSIVE breach_scan(_, _, _, _)
MutBreachScanStrict(i, future_predictions_inv, future_timestamps, thr) ==
    IF i > Len(future_predictions_inv) THEN <<>>
    ELSE IF future_predictions_inv[i] > thr THEN <<future_timestamps[i]>>
    ELSE breach_scan(i + 1, future_predictions_inv, future_timestamps, thr)

breach_scan(i, future_predictions_inv, future_timestamps, thr) ==
    IF i > Len(future_predictions_inv) THEN <<>>
    ELSE IF future_predictions_inv[i] >= thr THEN <<future_timestamps[i]>>
    ELSE breach_scan(i + 1, future_predictions_inv, future_timestamps, thr)

\* lines 857-876; threshold * 0.8 is compared as 5 * value > 4 * threshold
MutStatusCriticalAtThreshold(current_pressure, predicted_pressure_now, breach, thr) ==
    IF current_pressure >= thr \/ predicted_pressure_now > thr
        THEN "CRITICAL"
    ELSE IF \/ 5 * current_pressure > 4 * thr
            \/ 5 * predicted_pressure_now > 4 * thr
            \/ breach # <<>>
        THEN "WARNING"
    ELSE "OPERATIONAL"

MutStatusIgnoresHorizon(current_pressure, predicted_pressure_now, breach, thr) ==
    IF current_pressure > thr \/ predicted_pressure_now > thr
        THEN "CRITICAL"
    ELSE IF \/ 5 * current_pressure > 4 * thr
            \/ 5 * predicted_pressure_now > 4 * thr
        THEN "WARNING"
    ELSE "OPERATIONAL"

system_status_of(current_pressure, predicted_pressure_now, breach, thr) ==
    IF current_pressure > thr \/ predicted_pressure_now > thr
        THEN "CRITICAL"
    ELSE IF \/ 5 * current_pressure > 4 * thr
            \/ 5 * predicted_pressure_now > 4 * thr
            \/ breach # <<>>
        THEN "WARNING"
    ELSE "OPERATIONAL"

\* lines 843-845: date_range(start=last_timestamp + 1 hour, periods, freq='H');
\* the step is one hour whatever the spacing of the rows
MutFutureTimestampsUneven(last_timestamp, periods) ==
    [i \in 1..periods |-> last_timestamp + i * i]

future_timestamps_of(last_timestamp, periods) ==
    [i \in 1..periods |-> last_timestamp + i]

\* line 948
MutMaintenanceSwapped(status) ==
    IF status = "WARNING" THEN 0 ELSE (IF status = "CRITICAL" THEN 24 ELSE 168)

maintenance_hours_of(status) ==
    IF status = "WARNING" THEN 24 ELSE (IF status = "CRITICAL" THEN 0 ELSE 168)

NoData ==
    [ground_truth_all |-> <<>>, timestamps_all |-> <<>>,
     scaler |-> [data_min |-> 0, data_max |-> 0, range |-> 1],
     scaled_data_all |-> <<>>, train_size |-> 0,
     X_test |-> <<>>, y_test |-> <<>>,
     predictions_on_test_inv |-> <<>>, actual_test_inv |-> <<>>,
     test_timestamps |-> <<>>, metrics |-> ZeroMetrics,
     X_all_viz_data |-> <<>>, y_all_viz_data |-> <<>>]

NoOutcome ==
    [future_predictions_inv |-> <<>>, future_timestamps |-> <<>>,
     current_pressure |-> 0, predicted_pressure_now |-> 0,
     predicted_breach_time |-> <<>>, system_status |-> "NONE",
     maintenance_hours |-> <<>>, displayed |-> FALSE]

\* no pipeline run in progress
PipeIdle ==
    /\ pc = "idle"
    /\ df_pressure = <<>>
    /\ cadence = 1
    /\ threshold = 5
    /\ sequence_length = 1
    /\ model = "last"
    /\ data = NoData
    /\ current_sequence = <<>>
    /\ predicted_values = <<>>
    /\ outcome = NoOutcome
    /\ error = "none"
    /\ notices = {}

----------------------------------------------------------------------------
Init ==
    /\ PipeIdle
    /\ now = 0
    /\ authenticated = FALSE
    /\ username = <<>>
    /\ last_update_time = <<>>
    /\ update_interval = <<>>
    /\ auto_update_enabled = <<>>
    /\ csv_cached = FALSE
    /\ pending = NoEv
    /\ rerun = FALSE
    /\ page_num = <<>>
    /\ countdown = NoCountdown
    /\ lastOp = "start"
    /\ refreshed_at = <<>>
    /\ login_form = <<>>

\* time passes
Tick ==
    \E d \in TickSteps :
        /\ UNCHANGED pipeVars
        /\ now + d <= MaxNow * Res
        /\ now' = now + d
        /\ lastOp' = "tick"
        /\ UNCHANGED <<authenticated, username, last_update_time, update_interval,
                       auto_update_enabled, csv_cached, pending, rerun, page_num,
                       countdown, refreshed_at, login_form>>

\* main() with no authenticated flag: login_page, the form submitted or not
LoginPage ==
    /\ UNCHANGED pipeVars
    /\ ~check_authentication
    /\ \E submit \in BOOLEAN, u \in TypedUsernames, p \in TypedPasswords :
        /\ rerun => ~submit
        /\ IF submit /\ u # "" /\ p # "" /\ authenticate_user(u, p)
              THEN /\ authenticated' = TRUE
                   /\ username' = <<u>>
                   /\ rerun' = TRUE
                   /\ lastOp' = "login"
                   /\ login_form' = <<[username |-> u, password |-> p]>>
              ELSE /\ UNCHANGED <<authenticated, username, login_form>>
                   /\ rerun' = FALSE
                   /\ lastOp' = IF submit THEN "login_denied" ELSE "login_page"
    /\ pending' = NoEv
    /\ countdown' = NoCountdown
    /\ UNCHANGED <<now, last_update_time, update_interval, auto_update_enabled,
                   csv_cached, page_num, refreshed_at>>

\* check_and_update, when it fires: last_update_time = current_time
MutRefreshedLastKept == InitLast

RefreshedLast == now

\* main_dashboard: check_and_update fires; the run ends there with a re-run.
\* The widget value that triggered this run has not been read: it stays
\* pending or is dropped with the aborted run; a button press is dropped.
AutoRefresh ==
    /\ UNCHANGED pipeVars
    /\ check_authentication
    /\ ShouldRefresh(now, InitLast, InitInterval, InitEnabled)
    /\ \E ev \in RunEvents :
          pending' \in (IF ev \in ValueEvents THEN {ev, NoEv} ELSE {NoEv})
    /\ last_update_time' = <<RefreshedLast>>
    /\ update_interval' = <<InitInterval>>
    /\ auto_update_enabled' = <<InitEnabled>>
    /\ csv_cached' = FALSE
    /\ rerun' = TRUE
    /\ lastOp' = "auto_refresh"
    /\ refreshed_at' = IF refreshed_at = <<>> THEN <<now>>
                       ELSE <<refreshed_at[Len(refreshed_at)], now>>
    /\ UNCHANGED <<now, authenticated, username, page_num, countdown, login_form>>

\* show_user_panel, interval changed: last_update_time is not assigned
MutIntervalChangeRestartsClock == now

IntervalChangeLast == InitLast

\* show_user_panel: the selectbox holds another interval than the session
IntervalChange ==
    /\ UNCHANGED pipeVars
    /\ check_authentication
    /\ PanelReached
    /\ \E ev \in RunEvents :
        /\ IntervalChanged(ev)
        /\ update_interval' = <<update_options[SelectedLabel(ev)]>>
        /\ auto_update_enabled' = <<CheckboxValue(ev)>>
        /\ csv_cached' = CacheAfterIntervalChange(ev)
    /\ last_update_time' = <<IntervalChangeLast>>
    /\ rerun' = TRUE
    /\ pending' = NoEv
    /\ lastOp' = "interval_change"
    /\ refreshed_at' = <<>>
    /\ UNCHANGED <<now, authenticated, username, page_num, countdown, login_form>>

\* show_user_panel: "Refresh Now" pressed
ManualRefresh ==
    /\ UNCHANGED pipeVars
    /\ check_authentication
    /\ PanelReached
    /\ \E ev \in RunEvents :
        /\ ~IntervalChanged(ev)
        /\ ev.k = "refresh"
        /\ auto_update_enabled' = <<CheckboxValue(ev)>>
        /\ countdown' = PanelCountdown(ev)
        /\ last_update_time' = <<ManualRefreshLast(ev)>>
    /\ csv_cached' = FALSE
    /\ update_interval' = <<InitInterval>>
    /\ rerun' = TRUE
    /\ pending' = NoEv
    /\ lastOp' = "manual_refresh"
    /\ refreshed_at' = <<>>
    /\ UNCHANGED <<now, authenticated, username, page_num, login_form>>

\* show_user_panel: "Secure Logout" pressed; logout()
Logout ==
    /\ UNCHANGED pipeVars
    /\ check_authentication
    /\ PanelReached
    /\ \E ev \in RunEvents :
        /\ ~IntervalChanged(ev)
        /\ ev.k = "logout"
        /\ auto_update_enabled' = <<CheckboxValue(ev)>>
        /\ countdown' = PanelCountdown(ev)
    /\ authenticated' = FALSE
    /\ username' = <<>>
    /\ last_update_time' = <<>>
    /\ update_interval' = <<InitInterval>>
    /\ csv_cached' = FALSE
    /\ rerun' = TRUE
    /\ pending' = NoEv
    /\ lastOp' = "logout"
    /\ refreshed_at' = <<>>
    /\ login_form' = <<>>
    /\ UNCHANGED <<now, page_num>>

\* main_dashboard past the sidebar panel: the model file loads or not, the
\* CSV is loaded through the cache, the pipeline runs and the page is drawn
ViewRun ==
    /\ UNCHANGED pipeVars
    /\ check_authentication
    /\ PanelReached
    /\ \E ev \in RunEvents, model_ok \in BOOLEAN, table_shown \in BOOLEAN :
        /\ ~IntervalChanged(ev)
        /\ ev.k \notin {"refresh", "logout"}
        /\ auto_update_enabled' = <<CheckboxValue(ev)>>
        /\ countdown' = PanelCountdown(ev)
        /\ IF ~model_ok
              THEN \* st.stop() before the CSV is loaded
                   /\ UNCHANGED <<csv_cached, page_num>>
                   /\ rerun' = FALSE
                   /\ lastOp' = IF ev.k = "toggle" THEN "toggle" ELSE "model_fail"
              ELSE /\ csv_cached' = TRUE
                   /\ IF ~table_shown
                         THEN /\ UNCHANGED page_num
                              /\ rerun' = FALSE
                              /\ lastOp' = IF ev.k = "toggle" THEN "toggle" ELSE "view"
                         ELSE LET pn == IF page_num = <<>> THEN 0 ELSE page_num[1]
                              IN  IF ev.k = "prev" /\ pn > 0
                                     THEN /\ page_num' = <<pn - 1>>
                                          /\ rerun' = TRUE
                                          /\ lastOp' = "page"
                                  ELSE IF ev.k = "next" /\ pn < TotalPages - 1
                                     THEN /\ page_num' = <<pn + 1>>
                                          /\ rerun' = TRUE
                                          /\ lastOp' = "page"
                                  ELSE /\ page_num' = <<pn>>
                                       /\ rerun' = FALSE
                                       /\ lastOp' = IF ev.k = "toggle" THEN "toggle"
                                                    ELSE "view"
    /\ last_update_time' = <<InitLast>>
    /\ update_interval' = <<InitInterval>>
    /\ pending' = NoEv
    /\ UNCHANGED <<now, authenticated, username, refreshed_at, login_form>>

Next ==
    \/ Tick
    \/ LoginPage
    \/ AutoRefresh
    \/ IntervalChange
    \/ ManualRefresh
    \/ Logout
    \/ ViewRun

Spec == Init /\ [][Next]_vars

----------------------------------------------------------------------------
(* The session under a clock that never stops.  The program reads the clock *)
(* only through differences with earlier instants, so the origin of the    *)
(* time axis moves with the clock: now stays and the earlier instants      *)
(* recede, no further than LiveCap, beyond which every interval has long   *)
(* elapsed.                                                                *)

\* the longest interval the session can hold, in seconds
MaxInterval ==
    LET held == {update_options[l] : l \in SelectableLabels}
                    \cup {DEFAULT_UPDATE_INTERVAL}
    IN  CHOOSE i \in held : \A j \in held : j <= i

\* the elapsed time, in ticks, beyond which the model stops counting
LiveCap == (MaxInterval + LiveStep) * Res

\* an earlier instant, LiveStep seconds later
Recede(t) == IF t - LiveStep * Res < now - LiveCap THEN now - LiveCap
             ELSE t - LiveStep * Res

\* time passes; the cache entry, of an age the model does not keep, may
\* reach its ttl
TickLive ==
    /\ UNCHANGED pipeVars
    /\ last_update_time' = [i \in DOMAIN last_update_time |->
                                Recede(last_update_time[i])]
    /\ refreshed_at' = [i \in DOMAIN refreshed_at |-> Recede(refreshed_at[i])]
    /\ csv_cached' \in (IF csv_cached THEN BOOLEAN ELSE {FALSE})
    /\ lastOp' = "tick"
    /\ UNCHANGED <<now, authenticated, username, update_interval,
                   auto_update_enabled, pending, rerun, page_num,
                   countdown, login_form>>

\* the host runs the script of a logged-in session: main_dashboard
DashboardRun ==
    \/ AutoRefresh
    \/ IntervalChange
    \/ ManualRefresh
    \/ Logout
    \/ ViewRun

NextLive ==
    \/ TickLive
    \/ LoginPage
    \/ AutoRefresh
    \/ IntervalChange
    \/ ManualRefresh
    \/ Logout
    \/ ViewRun

\* time keeps advancing, and the host keeps running the dashboard of a
\* logged-in session
SpecLive ==
    /\ Init
    /\ [][NextLive]_vars
    /\ WF_vars(TickLive)
    /\ WF_vars(DashboardRun)

----------------------------------------------------------------------------
(* One pipeline run, in a session that is logged in and past the sidebar *)

InitPipe ==
    /\ now = 0
    /\ authenticated = TRUE
    /\ username = <<"engineer">>
    /\ last_update_time = <<0>>
    /\ update_interval = <<DEFAULT_UPDATE_INTERVAL>>
    /\ auto_update_enabled = <<TRUE>>
    /\ csv_cached = TRUE
    /\ pending = NoEv
    /\ rerun = FALSE
    /\ page_num = <<>>
    /\ countdown = format_time_remaining(0, 0, DEFAULT_UPDATE_INTERVAL)
    /\ lastOp = "view"
    /\ refreshed_at = <<>>
    /\ login_form = <<[username |-> "engineer", password |-> "engineer123"]>>
    /\ pc = "start"
    /\ df_pressure \in CsvColumns
    /\ cadence \in Cadences
    /\ threshold \in Thresholds
    /\ sequence_length \in 1..MaxSeqLen
    /\ model \in Models
    /\ data = NoData
    /\ current_sequence = <<>>
    /\ predicted_values = <<>>
    /\ outcome = NoOutcome
    /\ error = "none"
    /\ notices = {}

\* lines 708-800 and 836-837: clean, scale, split, window, evaluate, and
\* take the seed of the forecast.  The predictor may raise in a batch call
\* (lines 746, 790): the exception ends the run.  Each local of the code is
\* bound once, as the one element of a set.
Prepare ==
    /\ pc = "start"
    /\ \E ground_truth_all \in {ndarray(clip_lower_zero(dropna(df_pressure)))} :
       \E timestamps_all \in
              {ndarray(timestamps_head(Len(ground_truth_all), cadence))} :
         IF Len(ground_truth_all) = 0
           THEN \* fit_transform raises on an empty array
                /\ data' = NoData
                /\ error' = "ValueError: 0 samples"
                /\ pc' = "failed"
                /\ UNCHANGED <<current_sequence, notices>>
           ELSE
             \E scaler \in {scaler_fit(ground_truth_all)} :
             \E scaled_data_all \in
                    {ndarray([i \in DOMAIN ground_truth_all |->
                                 scaler_transform(scaler, ground_truth_all[i])])} :
             \E train_size \in {TrainSize(Len(scaled_data_all))} :
             \E test \in {create_sequences(SliceFrom(scaled_data_all, train_size),
                                           sequence_length)} :
             \E viz \in {create_sequences(scaled_data_all, sequence_length)} :
             \E predictions \in {TestPredictions(model, scaler, test.X)} :
             \E evaluated \in
                    {IF Len(test.X) > 0
                        THEN truncate_test(
                                 ndarray([i \in DOMAIN test.y |->
                                     scaler_inverse_transform(scaler, test.y[i])]),
                                 predictions[1],
                                 test_timestamps_of(timestamps_all, train_size,
                                                    sequence_length))
                        ELSE [actual_test_inv |-> <<>>,
                              predictions_on_test_inv |-> <<>>,
                              test_timestamps |-> <<>>]} :
             \E metrics \in
                    {IF Len(test.X) > 0
                        THEN metrics_of(evaluated.actual_test_inv,
                                        evaluated.predictions_on_test_inv)
                        ELSE ZeroMetrics} :
             \E warned \in {IF Len(test.X) > 0 THEN {}
                            ELSE {"Insufficient data for testing"}} :
             \E predictor_ok \in BOOLEAN :
                /\ predictor_ok \/ Len(test.X) > 0 \/ Len(viz.X) > 0
                /\ IF ~predictor_ok
                     THEN /\ data' = NoData
                          /\ notices' = warned
                          /\ error' = "Exception: model.predict"
                          /\ pc' = "failed"
                          /\ UNCHANGED current_sequence
                   ELSE IF ~metrics.ok
                     THEN /\ data' = NoData
                          /\ notices' = warned
                          /\ error' = "ValueError: inconsistent numbers of samples"
                          /\ pc' = "failed"
                          /\ UNCHANGED current_sequence
                   ELSE /\ data' =
                             [ground_truth_all |-> ground_truth_all,
                              timestamps_all |-> timestamps_all,
                              scaler |-> scaler,
                              scaled_data_all |-> scaled_data_all,
                              train_size |-> train_size,
                              X_test |-> test.X,
                              y_test |-> test.y,
                              predictions_on_test_inv |->
                                  IF Len(test.X) > 0
                                     THEN <<evaluated.predictions_on_test_inv>>
                                     ELSE predictions,
                              actual_test_inv |-> evaluated.actual_test_inv,
                              test_timestamps |-> evaluated.test_timestamps,
                              metrics |-> metrics,
                              X_all_viz_data |-> viz.X,
                              y_all_viz_data |-> viz.y]
                        /\ notices' = warned
                        /\ current_sequence' =
                               SliceLast(scaled_data_all, sequence_length)
                        /\ error' = "none"
                        /\ pc' = "forecast"
    /\ UNCHANGED <<df_pressure, cadence, threshold, sequence_length, model,
                   predicted_values, outcome>>
    /\ UNCHANGED sessionVars

\* lines 817-826: one step of predict_future's loop; the predictor may raise
PredictStep ==
    /\ pc = "forecast"
    /\ Len(predicted_values) < future_steps_1_month
    /\ IF Len(current_sequence) # sequence_length
          THEN \* reshape(1, sequence_length, 1) raises
               /\ error' = "ValueError: reshape"
               /\ pc' = "failed"
               /\ UNCHANGED <<current_sequence, predicted_values, outcome>>
          ELSE \E predictor_ok \in BOOLEAN :
                 IF ~predictor_ok
                    THEN /\ error' = "Exception: model.predict"
                         /\ pc' = "failed"
                         /\ outcome' = [outcome EXCEPT !.future_predictions_inv =
                                forecast_on_error(predicted_values, data.scaler)]
                         /\ UNCHANGED <<current_sequence, predicted_values>>
                    ELSE LET next_pred_scaled == model_predict(model, current_sequence)
                         IN  /\ predicted_values' =
                                    Append(predicted_values, next_pred_scaled)
                             /\ current_sequence' =
                                    slide_sequence(current_sequence, next_pred_scaled)
                             /\ UNCHANGED <<error, pc, outcome>>
    /\ UNCHANGED <<df_pressure, cadence, threshold, sequence_length, model, data,
                   notices>>
    /\ UNCHANGED sessionVars

\* lines 828-876 and the page drawn from them (883-1198)
Status ==
    /\ pc = "forecast"
    /\ Len(predicted_values) = future_steps_1_month
    /\ LET future_predictions_inv ==
               ndarray([i \in DOMAIN predicted_values |->
                           scaler_inverse_transform(data.scaler, predicted_values[i])])
           last_timestamp == data.timestamps_all[Len(data.timestamps_all)]
           future_timestamps ==
               future_timestamps_of(last_timestamp, future_steps_1_month)
           current_pressure ==
               IF Len(data.ground_truth_all) > 0
                  THEN data.ground_truth_all[Len(data.ground_truth_all)] ELSE 0
       IN  IF data.predictions_on_test_inv = <<>>
             THEN \* line 855 reads a name that was never assigned
                  /\ outcome' = [outcome EXCEPT
                         !.future_predictions_inv = future_predictions_inv,
                         !.future_timestamps = future_timestamps,
                         !.current_pressure = current_pressure]
                  /\ error' = "NameError: predictions_on_test_inv"
                  /\ pc' = "failed"
             ELSE LET preds == data.predictions_on_test_inv[1]
                      predicted_pressure_now ==
                          IF Len(preds) > 0 THEN preds[Len(preds)] ELSE 0
                      predicted_breach_time ==
                          breach_scan(1, future_predictions_inv,
                                      future_timestamps, threshold)
                      system_status ==
                          system_status_of(current_pressure, predicted_pressure_now,
                                           predicted_breach_time, threshold)
                  IN  /\ outcome' =
                            [future_predictions_inv |-> future_predictions_inv,
                             future_timestamps |-> future_timestamps,
                             current_pressure |-> current_pressure,
                             predicted_pressure_now |-> predicted_pressure_now,
                             predicted_breach_time |-> predicted_breach_time,
                             system_status |-> system_status,
                             maintenance_hours |->
                                 <<maintenance_hours_of(system_status)>>,
                             displayed |-> TRUE]
                      /\ error' = "none"
                      /\ pc' = "done"
    /\ UNCHANGED <<df_pressure, cadence, threshold, sequence_length, model, data,
                   current_sequence, predicted_values, notices>>
    /\ UNCHANGED sessionVars

NextPipe ==
    \/ Prepare
    \/ PredictStep
    \/ Status

SpecPipe == InitPipe /\ [][NextPipe]_vars

----------------------------------------------------------------------------
(* Claims about the pipeline *)

\* the run's inputs to the status engine, as the data of the run hold them
CleanLen == Len(dropna(df_pressure))
CurrentValue == data.ground_truth_all[Len(data.ground_truth_all)]
NearestPrediction ==
    data.predictions_on_test_inv[1][Len(data.predictions_on_test_inv[1])]
Forecast ==
    [i \in DOMAIN predicted_values |-> predicted_values[i] + data.scaler.data_min]
IsCritical == CurrentValue > threshold \/ NearestPrediction > threshold
HorizonBreach == \E k \in DOMAIN Forecast : Forecast[k] >= threshold

\* C1: a run that reaches a verdict is CRITICAL if and only if the current
\* value or the nearest prediction is strictly above the threshold,
\* whatever the forecast horizon holds.
C1_CriticalIff ==
    pc = "done" => (outcome.system_status = "CRITICAL" <=> IsCritical)

C1_Witness ==
    /\ pc = "done"
    /\ outcome.system_status = "CRITICAL"
    /\ CurrentValue > threshold
    /\ NearestPrediction < threshold

\* C2: when the verdict is not CRITICAL it is WARNING if and only if the
\* current value or the nearest prediction is above 0.8 * threshold or some
\* point of the forecast horizon is at or above the threshold, and it is
\* OPERATIONAL otherwise.
C2_WarningIff ==
    (pc = "done" /\ ~IsCritical) =>
        /\ outcome.system_status \in {"WARNING", "OPERATIONAL"}
        /\ outcome.system_status = "WARNING" <=>
              \/ 5 * CurrentValue > 4 * threshold
              \/ 5 * NearestPrediction > 4 * threshold
              \/ HorizonBreach

C2_Witness ==
    /\ pc = "done"
    /\ outcome.system_status = "WARNING"
    /\ 5 * CurrentValue <= 4 * threshold
    /\ 5 * NearestPrediction <= 4 * threshold
    /\ Forecast[1] < threshold
    /\ HorizonBreach

\* C3: the breach time is the timestamp of the lowest-index forecast point
\* at or above the threshold, and there is none if and only if every
\* forecast point is below the threshold.
C3_BreachScan ==
    pc = "done" =>
        /\ outcome.future_predictions_inv = Forecast
        /\ outcome.predicted_breach_time = <<>> <=> ~HorizonBreach
        /\ outcome.predicted_breach_time # <<>> =>
              \E k \in DOMAIN Forecast :
                  /\ Forecast[k] >= threshold
                  /\ \A j \in 1..(k - 1) : Forecast[j] < threshold
                  /\ outcome.predicted_breach_time
                        = <<outcome.future_timestamps[k]>>

C3_Witness ==
    /\ pc = "done"
    /\ Forecast[1] < threshold
    /\ Forecast[2] >= threshold
    /\ outcome.predicted_breach_time = <<outcome.future_timestamps[2]>>

\* C4: a run whose cleaned series is no longer than the window never
\* reaches a verdict: it ends in failure with no status, no maintenance
\* window and no forecast on the page, after the insufficient-data warning
\* (or, for an empty series, the scaler's refusal of zero samples).
C4_InsufficientDataHalts ==
    CleanLen <= sequence_length =>
        /\ pc # "done"
        /\ outcome.system_status = "NONE"
        /\ outcome.maintenance_hours = <<>>
        /\ outcome.predicted_breach_time = <<>>
        /\ ~outcome.displayed
        /\ (pc = "forecast" /\ Len(predicted_values) = future_steps_1_month)
              => data.predictions_on_test_inv = <<>>
        /\ pc = "failed" =>
              \/ "Insufficient data for testing" \in notices
              \/ error = "ValueError: 0 samples"

C4_Witness ==
    /\ pc = "failed"
    /\ CleanLen = sequence_length
    /\ "Insufficient data for testing" \in notices
    /\ outcome.system_status = "NONE"

\* the windows and targets create_sequences must give for series d
WindowsOf(d, X, y) ==
    /\ Len(X) = (IF Len(d) > sequence_length THEN Len(d) - sequence_length ELSE 0)
    /\ Len(y) = Len(X)
    /\ \A i \in 1..Len(X) :
          /\ X[i] = [j \in 1..sequence_length |-> d[i + j - 1]]
          /\ y[i] = d[i + sequence_length]

\* C10: for a series of length N and window length L there are exactly
\* max(0, N - L) (window, target) pairs, oldest first; window i is the
\* slice [i, i+L) and target i the value at i+L (indices from 0), and there
\* is no pair when N <= L.  Checked on the whole scaled series and on its
\* held-out part.
C10_MakeWindows ==
    (pc # "start" /\ error # "ValueError: 0 samples") =>
        /\ WindowsOf(data.scaled_data_all, data.X_all_viz_data, data.y_all_viz_data)
        /\ WindowsOf(SliceFrom(data.scaled_data_all, data.train_size),
                     data.X_test, data.y_test)

C10_Witness ==
    /\ pc = "forecast"
    /\ sequence_length = 2
    /\ Len(data.X_all_viz_data) >= 3
    /\ data.X_all_viz_data[1] # data.X_all_viz_data[2]
    /\ data.y_all_viz_data[1] # data.y_all_viz_data[2]

----------------------------------------------------------------------------
(* Claims about the forecast *)

\* predict_future has returned: the forecast and its timestamps exist
ForecastReturned == outcome.future_timestamps # <<>>

\* C11: a forecast that predict_future returns has exactly as many points as
\* steps were requested, one timestamp per point, and its timestamps are
\* strictly increasing with one and the same step between neighbours; while
\* the loop runs or after it failed there is no forecast at all.
C11_ForecastShape ==
    /\ ForecastReturned =>
          /\ Len(outcome.future_predictions_inv) = future_steps_1_month
          /\ Len(outcome.future_timestamps) = future_steps_1_month
          /\ \A i \in 1..(future_steps_1_month - 1) :
                /\ outcome.future_timestamps[i + 1] > outcome.future_timestamps[i]
                /\ outcome.future_timestamps[i + 1] - outcome.future_timestamps[i]
                      = outcome.future_timestamps[2] - outcome.future_timestamps[1]
    /\ ~ForecastReturned => outcome.future_predictions_inv = <<>>

C11_Witness ==
    /\ pc = "done"
    /\ Len(outcome.future_predictions_inv) = future_steps_1_month
    /\ Len(outcome.future_timestamps) >= 3
    /\ outcome.future_timestamps[3] - outcome.future_timestamps[2]
          = outcome.future_timestamps[2] - outcome.future_timestamps[1]

\* the timestamp of the last row of the CSV that holds a reading
LastReadingStamp ==
    LET rows == {i \in DOMAIN df_pressure : df_pressure[i] # <<>>}
    IN  ((CHOOSE i \in rows : \A j \in rows : j <= i) - 1) * cadence

\* C12 (as stated): the step between two forecast timestamps is the cadence
\* of the input series, and the first forecast timestamp lies one cadence
\* step after the last reading, for every cadence of the input.
C12_StepIsCadence ==
    ForecastReturned =>
        /\ outcome.future_timestamps[1] = LastReadingStamp + cadence
        /\ \A i \in 1..(Len(outcome.future_timestamps) - 1) :
              outcome.future_timestamps[i + 1] - outcome.future_timestamps[i]
                  = cadence

\* C13: when the predictor raises at a step of the forecast loop the run
\* ends there: the predictions made so far are not returned as a forecast,
\* and the run has no timestamps, no verdict, no breach time, no maintenance
\* window and nothing on the page (charts, table, export).
C13_PredictorFailureIsTotal ==
    error = "Exception: model.predict" =>
        /\ pc = "failed"
        /\ outcome.future_predictions_inv = <<>>
        /\ outcome.future_timestamps = <<>>
        /\ outcome.system_status = "NONE"
        /\ outcome.predicted_breach_time = <<>>
        /\ outcome.maintenance_hours = <<>>
        /\ ~outcome.displayed

C13_Witness ==
    /\ error = "Exception: model.predict"
    /\ pc = "failed"
    /\ Len(predicted_values) >= 1
    /\ Len(predicted_values) < future_steps_1_month
    /\ outcome = NoOutcome

\* the run got past the evaluation of lines 744-772
Evaluated == pc # "start" /\ data # NoData

\* C15 (as stated): a series longer than the window whose held-out part
\* gives no (window, target) pair does not fail: the four metrics are zero,
\* the insufficient-data notice is shown, no exception ends the run, and the
\* verdict it reaches is computed with the nearest prediction taken as 0.
C15_NoTestPairsStillVerdict ==
    (Evaluated /\ CleanLen > sequence_length /\ Len(data.X_test) = 0
       /\ error # "Exception: model.predict") =>
        /\ data.metrics = ZeroMetrics
        /\ "Insufficient data for testing" \in notices
        /\ error = "none"
        /\ pc = "done" =>
              /\ outcome.predicted_pressure_now = 0
              /\ outcome.system_status \in {"CRITICAL", "WARNING", "OPERATIONAL"}

\* what the predictor returned for the held-out windows, scaled, row by row
RawTestOutputs ==
    flatten([i \in DOMAIN data.X_test |-> model_outputs(model, data.X_test[i])])

\* the series the scaler was fitted on is constant
ConstantSeries == Evaluated /\ data.scaler.data_max = data.scaler.data_min

\* C16 (as amended): for a constant series the scaler takes the range as 1:
\* every value of the series is scaled to 0, and the inverse of a scaled
\* value s is min + s, which is min only for s = 0; a forecast point is min
\* plus what the predictor returned for it.
C16_ConstantSeriesScaling ==
    ConstantSeries =>
        /\ data.scaler.range = 1
        /\ \A i \in DOMAIN data.scaled_data_all : data.scaled_data_all[i] = 0
        /\ data.predictions_on_test_inv # <<>> =>
              \A i \in DOMAIN data.predictions_on_test_inv[1] :
                  data.predictions_on_test_inv[1][i]
                      = data.scaler.data_min + RawTestOutputs[i]
        /\ ForecastReturned =>
              \A k \in DOMAIN predicted_values :
                  outcome.future_predictions_inv[k]
                      = data.scaler.data_min + predicted_values[k]

C16_Witness ==
    /\ ConstantSeries
    /\ pc = "done"
    /\ data.scaler.data_min > 0
    /\ predicted_values[1] # 0
    /\ outcome.future_predictions_inv[1] # data.scaler.data_min
    /\ NearestPrediction # data.scaler.data_min

\* C16 as stated: for a constant series every value is scaled to 0 and the
\* inverse returns min for every scaled input, the predictor's outputs
\* included.
C16_Original ==
    ConstantSeries =>
        /\ \A i \in DOMAIN data.scaled_data_all : data.scaled_data_all[i] = 0
        /\ data.predictions_on_test_inv # <<>> =>
              \A i \in DOMAIN data.predictions_on_test_inv[1] :
                  data.predictions_on_test_inv[1][i] = data.scaler.data_min
        /\ ForecastReturned =>
              \A k \in DOMAIN predicted_values :
                  outcome.future_predictions_inv[k] = data.scaler.data_min

\* the readings of the CSV that parse, before clipping
RawReadings == dropna(df_pressure)

\* C17: every value the pipeline works on is >= 0: the cleaned series is the
\* parsed readings with each negative one replaced by 0 and the others as
\* they were; the scaler's minimum, hence every value it scales and every
\* window, is taken from that series, and so is the current value.
C17_NegativesClipped ==
    Evaluated =>
        /\ Len(data.ground_truth_all) = Len(RawReadings)
        /\ \A i \in DOMAIN data.ground_truth_all :
              /\ data.ground_truth_all[i] >= 0
              /\ data.ground_truth_all[i]
                    = (IF RawReadings[i] < 0 THEN 0 ELSE RawReadings[i])
              /\ data.scaled_data_all[i] + data.scaler.data_min
                    = data.ground_truth_all[i]
        /\ data.scaler.data_min >= 0
        /\ ForecastReturned =>
              /\ outcome.current_pressure >= 0
              /\ outcome.current_pressure
                    = data.ground_truth_all[Len(data.ground_truth_all)]

C17_Witness ==
    /\ pc = "done"
    /\ RawReadings[Len(RawReadings)] < 0
    /\ outcome.current_pressure = 0
    /\ \E i \in DOMAIN RawReadings :
          RawReadings[i] > 0 /\ data.ground_truth_all[i] = RawReadings[i]

\* C18: the maintenance window is looked up from the verdict alone: 0 hours
\* for CRITICAL, 24 for WARNING, 168 for OPERATIONAL; a run that reaches no
\* verdict shows no maintenance window.
C18_MaintenanceLookup ==
    /\ pc = "done" =>
          /\ outcome.system_status \in {"CRITICAL", "WARNING", "OPERATIONAL"}
          /\ outcome.system_status = "CRITICAL" => outcome.maintenance_hours = <<0>>
          /\ outcome.system_status = "WARNING" => outcome.maintenance_hours = <<24>>
          /\ outcome.system_status = "OPERATIONAL"
                => outcome.maintenance_hours = <<168>>
    /\ pc # "done" => outcome.maintenance_hours = <<>>

C18_Witness ==
    /\ pc = "done"
    /\ outcome.system_status = "WARNING"
    /\ outcome.maintenance_hours = <<24>>

\* the seed of the forecast: the last sequence_length scaled values
SeedWindow == SliceLast(data.scaled_data_all, sequence_length)

\* C19: the predictor is only ever called on a buffer of exactly
\* sequence_length values; while the loop runs the buffer is the last
\* sequence_length elements of the seed followed by the predictions made so
\* far, so after step j the oldest element is gone and prediction j is the
\* newest.  (A seed shorter than the window is refused by the reshape
\* before any call.)
C19_SlidingBuffer ==
    /\ (Evaluated /\ CleanLen >= sequence_length) =>
          /\ Len(current_sequence) = sequence_length
          /\ current_sequence
                = SliceLast(SeedWindow \o predicted_values, sequence_length)
    /\ Len(predicted_values) >= 1 =>
          /\ Len(current_sequence) = sequence_length
          /\ current_sequence[sequence_length]
                = predicted_values[Len(predicted_values)]
    /\ (Evaluated /\ CleanLen < sequence_length) => predicted_values = <<>>

C19_Witness ==
    /\ pc = "forecast"
    /\ sequence_length = 2
    /\ Len(predicted_values) = 1
    /\ SeedWindow[1] # SeedWindow[2]
    /\ predicted_values[1] # SeedWindow[2]
    /\ current_sequence = <<SeedWindow[2], predicted_values[1]>>

\* C20: the held-out actuals, predictions and timestamps the metrics and the
\* page use are the leading elements of what the evaluation produced, cut to
\* the shorter of actuals and predictions; the metrics are computed on as
\* many pairs, actual i with prediction i, and never on sequences of
\* different lengths.
C20_TruncatedToShorter ==
    /\ error # "ValueError: inconsistent numbers of samples"
    /\ (Evaluated /\ Len(data.X_test) > 0) =>
          LET shorter == IF Len(RawTestOutputs) < Len(data.y_test)
                            THEN Len(RawTestOutputs) ELSE Len(data.y_test)
              preds == data.predictions_on_test_inv[1]
          IN  /\ Len(data.actual_test_inv) = shorter
              /\ Len(preds) = shorter
              /\ Len(data.test_timestamps) = shorter
              /\ \A i \in 1..shorter :
                    /\ data.actual_test_inv[i]
                          = data.y_test[i] + data.scaler.data_min
                    /\ preds[i] = RawTestOutputs[i] + data.scaler.data_min
                    /\ data.test_timestamps[i]
                          = data.timestamps_all[data.train_size
                                                + sequence_length + i]
              /\ data.metrics.ok
              /\ data.metrics.n = shorter
              /\ data.metrics.abs_err
                    = SumOver([i \in 1..shorter |->
                                  AbsDiff(data.actual_test_inv[i], preds[i])],
                              shorter)

C20_Witness ==
    /\ pc = "done"
    /\ Len(RawTestOutputs) > Len(data.y_test)
    /\ Len(data.predictions_on_test_inv[1]) = Len(data.actual_test_inv)
    /\ Len(data.actual_test_inv) >= 1
    /\ data.metrics.n = Len(data.actual_test_inv)

\* the evaluation pairs of a run that N cleaned values should give
EvalPairs(n) ==
    IF n - data.train_size - sequence_length > 0
       THEN n - data.train_size - sequence_length ELSE 0

\* C25: train_size is floor(0.8 * N); every evaluation window and target is
\* drawn from series indices >= train_size only; there are
\* max(0, N - train_size - window_len) evaluation pairs; and the i-th pair
\* (i from 0) carries the timestamp of series index train_size + window_len
\* + i, the index of its target.
C25_EvaluationPairs ==
    Evaluated =>
        LET n == Len(data.ground_truth_all)
            first == data.train_size + sequence_length
        IN  /\ n = CleanLen
            /\ 10 * data.train_size <= 8 * n
            /\ 8 * n < 10 * (data.train_size + 1)
            /\ Len(data.X_test) = EvalPairs(n)
            /\ Len(data.y_test) = EvalPairs(n)
            /\ Len(data.test_timestamps) = EvalPairs(n)
            /\ Len(data.actual_test_inv) = EvalPairs(n)
            /\ \A i \in 0..(EvalPairs(n) - 1) :
                   /\ \A j \in 0..(sequence_length - 1) :
                          /\ data.train_size + i + j >= data.train_size
                          /\ data.train_size + i + j < n
                          /\ data.X_test[i + 1][j + 1]
                                = data.scaled_data_all[data.train_size + i + j + 1]
                   /\ first + i < n
                   /\ data.y_test[i + 1] = data.scaled_data_all[first + i + 1]
                   /\ data.actual_test_inv[i + 1]
                         = data.ground_truth_all[first + i + 1]
                   /\ data.test_timestamps[i + 1]
                         = data.timestamps_all[first + i + 1]

C25_Witness ==
    /\ Evaluated
    /\ Len(data.X_test) = 2
    /\ Len(data.test_timestamps) = 2
    /\ data.train_size = 8
    /\ data.y_test[1] # data.y_test[2]
    /\ data.test_timestamps[2] = data.timestamps_all[Len(data.timestamps_all)]

\* C26: the boundary is asymmetric.  A current value or nearest prediction
\* exactly equal to the threshold, with neither of them above it, gives
\* WARNING and not CRITICAL; a forecast point exactly equal to the threshold
\* counts as a predicted breach: the breach time is set, to that point's
\* timestamp when no earlier point reaches the threshold.
C26_BoundaryAsymmetric ==
    pc = "done" =>
        /\ (/\ CurrentValue = threshold \/ NearestPrediction = threshold
            /\ CurrentValue <= threshold
            /\ NearestPrediction <= threshold)
              => outcome.system_status = "WARNING"
        /\ \A k \in DOMAIN Forecast :
               Forecast[k] = threshold =>
                   /\ outcome.predicted_breach_time # <<>>
                   /\ (\A j \in 1..(k - 1) : Forecast[j] < threshold) =>
                          outcome.predicted_breach_time
                              = <<outcome.future_timestamps[k]>>

C26_Witness ==
    /\ pc = "done"
    /\ CurrentValue = threshold
    /\ NearestPrediction < threshold
    /\ outcome.system_status = "WARNING"
    /\ Forecast[1] = threshold
    /\ outcome.predicted_breach_time = <<outcome.future_timestamps[1]>>

\* the rows of the CSV whose pressure cell parses, in the order of the file
RECURSIVE KeptRows(_, _)
KeptRows(rows, first) ==
    IF rows = <<>> THEN <<>>
    ELSE IF Head(rows) = <<>> THEN KeptRows(Tail(rows), first + 1)
    ELSE <<first>> \o KeptRows(Tail(rows), first + 1)

\* the timestamp of a row of the CSV
RowStamp(r) == (r - 1) * cadence

\* C24 (as stated): after cleaning, the i-th value of the series is paired
\* with the timestamp of the input row that value came from, for every i,
\* also when rows whose pressure does not parse are dropped from the middle
\* of the input.
C24_ValueKeepsItsRowStamp ==
    Evaluated =>
        /\ Len(data.timestamps_all) = Len(data.ground_truth_all)
        /\ \A i \in DOMAIN data.ground_truth_all :
               data.timestamps_all[i] = RowStamp(KeptRows(df_pressure, 1)[i])

----------------------------------------------------------------------------
(* Claims about the update scheduler *)

\* the operations that run main_dashboard
DashOps == {"auto_refresh", "interval_change", "manual_refresh", "logout",
            "toggle", "view", "model_fail", "page"}
\* the runs that draw the sidebar panel and leave the clock as they read it
PanelOps == {"toggle", "view", "model_fail", "page"}

\* ticks left until the interval has elapsed (negative once it has)
RemainingTicks == update_interval[1] * Res - (now - last_update_time[1])

\* C5: a dashboard run is ended by the automatic refresh (last_update set to
\* the time of the check, cache cleared, re-run requested) if and only if
\* auto-update is enabled and now - last_update >= interval, both as the
\* session holds them when the check is made; a disabled session never
\* refreshes automatically.
C5_AutoRefreshIff ==
    [][lastOp' \in DashOps =>
          ((/\ lastOp' = "auto_refresh"
            /\ ~csv_cached'
            /\ rerun'
            /\ last_update_time' = <<now>>)
           <=> (InitEnabled /\ now - InitLast >= InitInterval * Res))]_vars

C5_Witness ==
    /\ lastOp = "auto_refresh"
    /\ ~csv_cached
    /\ rerun
    /\ last_update_time = <<now>>
    /\ auto_update_enabled = <<TRUE>>

\* C6: whenever the session's update interval changes to a different value,
\* the CSV cache holds no entry afterwards, with auto-update on or off.
C6_IntervalChangeClearsCache ==
    [][(update_interval # <<>> /\ update_interval' # update_interval)
          => (~csv_cached' /\ rerun')]_vars

C6_Witness ==
    /\ lastOp = "interval_change"
    /\ auto_update_enabled = <<FALSE>>
    /\ update_interval = <<60>>
    /\ ~csv_cached

\* C7: right after a manual refresh the cache holds no entry, last_update is
\* the current time and the time remaining is the whole interval, whatever
\* the enabled flag.
C7_ManualRefresh ==
    lastOp = "manual_refresh" =>
        /\ ~csv_cached
        /\ last_update_time = <<now>>
        /\ RemainingTicks = update_interval[1] * Res
        /\ format_time_remaining(now, last_update_time[1], update_interval[1])
              = format_time_remaining(0, 0, update_interval[1])

C7_Witness ==
    /\ lastOp = "manual_refresh"
    /\ auto_update_enabled = <<FALSE>>
    /\ now > 0
    /\ last_update_time = <<now>>

\* C21: each automatic refresh sets last_update to the time of the check, so
\* of two consecutive automatic refreshes with no interval change, manual
\* refresh or logout in between, the second comes at least the interval
\* after the first: no elapsed interval triggers two refreshes.
C21_RefreshesOneIntervalApart ==
    /\ lastOp = "auto_refresh" =>
          (last_update_time = <<now>> /\ refreshed_at[Len(refreshed_at)] = now)
    /\ Len(refreshed_at) = 2 =>
          /\ refreshed_at[2] - refreshed_at[1] >= update_interval[1] * Res
          /\ refreshed_at[2] > refreshed_at[1]

C21_Witness ==
    /\ lastOp = "auto_refresh"
    /\ Len(refreshed_at) = 2
    /\ refreshed_at[2] = now
    /\ last_update_time = <<now>>

\* C23: an interval change updates only the interval and the cache: it
\* leaves last_update and the enabled flag as they were, so the time already
\* elapsed counts against the new interval: when the new interval is no
\* longer than the elapsed time and auto-update is enabled, the next
\* dashboard run is ended by the automatic refresh.
C23_IntervalChangeKeepsClock ==
    [][/\ lastOp' = "interval_change" =>
              /\ update_interval' # update_interval
              /\ ~csv_cached'
              /\ last_update_time # <<>>
              /\ last_update_time' = last_update_time
              /\ auto_update_enabled # <<>>
              /\ auto_update_enabled' = auto_update_enabled
              /\ UNCHANGED <<authenticated, username, page_num>>
       /\ (/\ lastOp = "interval_change"
           /\ auto_update_enabled = <<TRUE>>
           /\ RemainingTicks <= 0
           /\ lastOp' \in DashOps) => lastOp' = "auto_refresh"]_vars

C23_Witness ==
    /\ lastOp = "interval_change"
    /\ auto_update_enabled = <<TRUE>>
    /\ update_interval = <<60>>
    /\ last_update_time # <<now>>
    /\ RemainingTicks <= 0
    /\ ~csv_cached

\* the steps that show the login page
LoginOps == {"login_page", "login", "login_denied"}

\* C27: over any sequence of login attempts, logouts and page runs, the
\* dashboard (scheduler check, data load, pipeline) runs only in a session
\* whose authenticated flag is set; the flag is set only by a login whose
\* username is known and whose password hash is the one stored for it; a
\* logout clears the flag together with the cached data, and the run that
\* follows shows the login page.
C27_DashboardBehindLogin ==
    [][/\ lastOp' \in DashOps => authenticated
       /\ lastOp' \in LoginOps => ~authenticated
       /\ (csv_cached' /\ ~csv_cached) => (authenticated /\ lastOp' \in PanelOps)
       /\ (authenticated' /\ ~authenticated) =>
              /\ lastOp' = "login"
              /\ login_form' # <<>>
              /\ username' = <<login_form'[1].username>>
              /\ login_form'[1].username \in DOMAIN USER_CREDENTIALS
              /\ USER_CREDENTIALS[login_form'[1].username]
                    = hash_password(login_form'[1].password)
       /\ lastOp' = "logout" =>
              /\ ~authenticated'
              /\ username' = <<>>
              /\ ~csv_cached'
              /\ rerun'
       /\ (lastOp = "logout" /\ lastOp' # "tick") => lastOp' = "login_page"]_vars

C27_Witness ==
    /\ lastOp = "login_page"
    /\ ~authenticated
    /\ ~csv_cached
    /\ login_form = <<>>
    /\ update_interval # <<>>
    /\ page_num # <<>>

\* auto-update is on in a logged-in session
AutoUpdateOn == authenticated /\ InitEnabled

\* check_and_update has just refreshed: cache cleared, last_update advanced
AutoRefreshed ==
    /\ lastOp = "auto_refresh"
    /\ ~csv_cached
    /\ last_update_time = <<now>>

\* C22 (as amended): if from some time on the session stays logged in with
\* auto-update enabled and no manual refresh sets last_update back to the
\* current time, while time keeps advancing and the host keeps running the
\* dashboard, then an automatic refresh happens, and happens again and again.
C22_RefreshRecurs ==
    (<>[]AutoUpdateOn /\ <>[](lastOp # "manual_refresh")) => []<>AutoRefreshed

C22_Witness ==
    /\ AutoRefreshed
    /\ auto_update_enabled = <<TRUE>>
    /\ Len(refreshed_at) = 2
    /\ refreshed_at[2] - refreshed_at[1] >= update_interval[1] * Res

\* C22 as stated: if auto-update stays enabled in a logged-in session while
\* time keeps advancing and the host keeps running the dashboard, an
\* automatic refresh happens again and again.
C22_Original ==
    <>[]AutoUpdateOn => []<>AutoRefreshed

\* the countdown the panel shows, in whole seconds
CountdownSeconds == 3600 * countdown.h + 60 * countdown.m + countdown.s

\* C8 (as amended): with auto-update enabled the panel shows "update pending"
\* exactly when the elapsed time has reached or passed the interval, and
\* otherwise a countdown that is the remaining time truncated to whole
\* seconds: never negative, and 00:00:00 during the last second.
C8_TimeRemainingTruncated ==
    (lastOp \in PanelOps /\ auto_update_enabled = <<TRUE>>) =>
        /\ countdown.kind = "pending" <=> RemainingTicks <= 0
        /\ RemainingTicks > 0 =>
              /\ countdown.kind = "hms"
              /\ CountdownSeconds = RemainingTicks \div Res
              /\ CountdownSeconds >= 0
              /\ countdown.m < 60 /\ countdown.s < 60

C8_Witness ==
    /\ lastOp \in PanelOps
    /\ auto_update_enabled = <<TRUE>>
    /\ RemainingTicks > 0
    /\ RemainingTicks < Res
    /\ countdown.kind = "hms"
    /\ CountdownSeconds = 0

\* C8 as stated: "update pending" exactly when the elapsed time has reached
\* the interval, and a positive countdown otherwise.
C8_Original ==
    (lastOp \in PanelOps /\ auto_update_enabled = <<TRUE>>) =>
        /\ countdown.kind = "pending" <=> RemainingTicks <= 0
        /\ RemainingTicks > 0 =>
              (countdown.kind = "hms" /\ CountdownSeconds > 0)

\* a field of the clock that was set keeps its value over a step
Kept(before, after) == before = <<>> \/ after = before

\* C9 (as amended): besides the scheduler operations (manual refresh,
\* interval change, elapsed-time check) the clock is changed by the
\* auto-update checkbox, which sets enabled only, and by logout, which
\* deletes last_update only; login, a pipeline run and paging leave the
\* three fields as they are.
C9_ClockFrame ==
    [][/\ lastOp' \notin {"manual_refresh", "interval_change", "auto_refresh",
                           "toggle", "logout"} =>
              /\ Kept(last_update_time, last_update_time')
              /\ Kept(update_interval, update_interval')
              /\ Kept(auto_update_enabled, auto_update_enabled')
       /\ lastOp' = "toggle" =>
              /\ Kept(last_update_time, last_update_time')
              /\ Kept(update_interval, update_interval')
       /\ lastOp' = "logout" =>
              /\ last_update_time' = <<>>
              /\ Kept(update_interval, update_interval')
              /\ Kept(auto_update_enabled, auto_update_enabled')]_vars

C9_Witness ==
    /\ lastOp = "logout"
    /\ last_update_time = <<>>
    /\ update_interval # <<>>
    /\ auto_update_enabled # <<>>

\* C9 as stated: only manual refresh, interval change and the elapsed-time
\* check change a field of the clock.
C9_Original ==
    [][lastOp' \notin {"manual_refresh", "interval_change", "auto_refresh"} =>
          /\ Kept(last_update_time, last_update_time')
          /\ Kept(update_interval, update_interval')
          /\ Kept(auto_update_enabled, auto_update_enabled')]_vars

====
